---------------------------- MODULE Spec2Model ----------------------------
(***************************************************************************)
(* A model of auto-install's helpers (src/helpers.js): the detection       *)
(* pipeline (extraction, validation, classification, deduplication, diff)  *)
(* and the install/uninstall helpers with the secure-mode popularity gate. *)
(*                                                                         *)
(* JavaScript strings are sequences of one-character strings, so that the  *)
(* code's match/replace/substring/indexOf/endsWith calls are computed as   *)
(* the code computes them.  Literal text the code only concatenates and    *)
(* prints (URL prefix, command words, messages) is kept as a single piece  *)
(* of such a sequence.                                                     *)
(***************************************************************************)
EXTENDS Integers, Sequences, FiniteSets, TLC

VARIABLES
    content,        \* SpecExtract: the text of the file getModulesFromFile reads
    modules,        \* SpecExtract: the array getModulesFromFile returns
    first,          \* SpecLists: the module list an operation is applied to
    second,         \* SpecLists: the second argument of diff
    result,         \* SpecLists: the list the operation returned
    secureMode,     \* Spec: the module-level flag, set from argv.secure
    manifest,       \* Spec: package.json, parsed
    files,          \* Spec: the files glob returns, each with its text
    installedModules, \* Spec: what getInstalledModules returned
    usedModules,    \* Spec: what getUsedModules returned, then filtered
    toInstall,      \* Spec: diff(used, installed), the part not yet processed
    toRemove,       \* Spec: diff(installed, used), the part not yet processed
    calls,          \* Spec: one record per installModule/uninstallModule call
    pc              \* the position of the run

vars == <<content, modules, first, second, result, secureMode, manifest, files,
          installedModules, usedModules, toInstall, toRemove, calls, pc>>

runVars == <<secureMode, manifest, files, installedModules, usedModules,
             toInstall, toRemove, calls>>

-----------------------------------------------------------------------------
(* Bounds of the model *)

MaxTokens == 6      \* lexemes in a file text of SpecExtract
MaxFilterLen == 3   \* entries in the list given to filterRegistryModules
MaxDedupLen == 4    \* entries in the list given to deduplicate
MaxFirst == 3       \* entries in the first argument of diff
MaxSecond == 2      \* entries in the second argument of diff
MaxFiles == 2       \* source files of a run
MaxDeps == 2        \* names in each dependency section of the manifest

-----------------------------------------------------------------------------
(* JavaScript values and string primitives *)

Undefined == [type |-> "undefined"]
JSBool(b) == [type |-> "boolean", b |-> b]
JSString(s) == [type |-> "string", chars |-> s]

\* ToBoolean: undefined is falsy
Truthy(v) == v.type = "boolean" /\ v.b

S_require == <<"r", "e", "q", "u", "i", "r", "e">>
S_undefined == <<"u", "n", "d", "e", "f", "i", "n", "e", "d">>

\* ToString of a value used where a string is expected
JSToString(v) == IF v.type = "string" THEN v.chars ELSE S_undefined

\* The parameter pattern ({name, dev}) => ... : property `name` of the argument.
\* A string primitive has no property `name`, so it binds undefined.
DestructureName(arg) == IF arg.type = "object" THEN JSString(arg.name) ELSE Undefined

Min(a, b) == IF a < b THEN a ELSE b
Max(a, b) == IF a > b THEN a ELSE b

\* String.prototype.substring(start, end): both clamped to [0, length], swapped
\* when start > end; indices are 0-based, end exclusive.
Substring(s, start, end) ==
    LET a == Min(Max(start, 0), Len(s))
        b == Min(Max(end, 0), Len(s))
    IN SubSeq(s, Min(a, b) + 1, Max(a, b))

\* String.prototype.indexOf(pat): 0-based index of the first occurrence, or -1
IndexOf(s, pat) ==
    LET hits == {i \in 0..(Len(s) - Len(pat)) : SubSeq(s, i + 1, i + Len(pat)) = pat}
    IN IF hits = {} THEN -1 ELSE CHOOSE i \in hits : \A j \in hits : i <= j

\* String.prototype.replace(pat, rep) with a string pattern: first occurrence only
Replace(s, pat, rep) ==
    LET i == IndexOf(s, pat)
    IN IF i = -1 THEN s
       ELSE SubSeq(s, 1, i) \o rep \o SubSeq(s, i + Len(pat) + 1, Len(s))

\* String.prototype.endsWith(suffix)
EndsWith(s, suffix) ==
    /\ Len(suffix) <= Len(s)
    /\ SubSeq(s, Len(s) - Len(suffix) + 1, Len(s)) = suffix

-----------------------------------------------------------------------------
(* getModulesFromFile and isValidModule *)

LineTerminators == {"\n", "\r"}

\* 1-based index of the first ")" or line terminator at or after j, 0 if none:
\* where the lazy (.*?) of the pattern stops
FirstStop(s, j) ==
    LET stops == {k \in j..Len(s) : s[k] \in ({")"} \cup LineTerminators)}
    IN IF stops = {} THEN 0 ELSE CHOOSE k \in stops : \A l \in stops : k <= l

\* /require\((.*?)\)/ tried at 1-based position p: the index of the closing
\* ")" of the match, or 0 when the pattern does not match there
MatchEnd(s, p) ==
    IF p + 7 <= Len(s) /\ SubSeq(s, p, p + 7) = S_require \o <<"(">>
    THEN LET q == FirstStop(s, p + 8)
         IN IF q # 0 /\ s[q] = ")" THEN q ELSE 0
    ELSE 0

\* content.match(pattern) with the g flag: every match, left to right, not
\* overlapping (null, when there is none, is the empty sequence here)
RECURSIVE MatchAll(_, _)
MatchAll(s, p) ==
    IF p > Len(s) THEN <<>>
    ELSE LET q == MatchEnd(s, p)
         IN IF q = 0 THEN MatchAll(s, p + 1)
            ELSE <<SubSeq(s, p, q)>> \o MatchAll(s, q + 1)

\* The characters of [a-z0-9-_]
NameChars ==
    {"a", "b", "c", "d", "e", "f", "g", "h", "i", "j", "k", "l", "m", "n", "o",
     "p", "q", "r", "s", "t", "u", "v", "w", "x", "y", "z",
     "0", "1", "2", "3", "4", "5", "6", "7", "8", "9", "-", "_"}

\* new RegExp("^([a-z0-9-_]{1,})$").test(s)
RegexTest(s) == Len(s) >= 1 /\ \A i \in 1..Len(s) : s[i] \in NameChars

\* isValidModule = ({name, dev}) => regex.test(name)
isValidModule(arg) == RegexTest(JSToString(DestructureName(arg)))

\* The three string operations of the loop body applied to one match
StripCall(match) ==
    LET m1 == Replace(match, S_require, <<>>)
        m2 == Substring(m1, 2, Len(m1))
    IN Substring(m2, 0, Len(m2) - 2)

\* What one match adds to `modules`: the loop body of getModulesFromFile
Contribution(match) ==
    LET m == StripCall(match)
    IN IF isValidModule(JSString(m)) THEN <<m>> ELSE <<>>

RECURSIVE Collect(_)
Collect(matches) ==
    IF matches = <<>> THEN <<>>
    ELSE Contribution(Head(matches)) \o Collect(Tail(matches))

getModulesFromFile(text) == Collect(MatchAll(text, 1))

-----------------------------------------------------------------------------
(* SpecExtract: getModulesFromFile applied to every text of at most         *)
(* MaxTokens lexemes                                                        *)

Lexemes == {S_require, <<"(">>, <<")">>, <<"'">>, <<"a">>, <<"V">>, <<"/">>, <<"\n">>}

RECURSIVE Texts(_)
Texts(n) ==
    IF n = 0 THEN {<<>>}
    ELSE LET shorter == Texts(n - 1)
         IN shorter \cup {t \o l : t \in shorter, l \in Lexemes}

\* The variables of the whole run, at rest while one function is exercised
NoRun ==
    /\ secureMode = FALSE
    /\ manifest = [ok |-> TRUE, dependencies |-> <<>>, devDependencies |-> <<>>]
    /\ files = <<>>
    /\ installedModules = <<>> /\ usedModules = <<>>
    /\ toInstall = <<>> /\ toRemove = <<>> /\ calls = <<>>

InitExtract ==
    /\ content \in Texts(MaxTokens)
    /\ modules = <<>>
    /\ pc = "start"
    /\ first = <<>> /\ second = <<>> /\ result = <<>>
    /\ NoRun

GetModulesFromFile ==
    /\ pc = "start"
    /\ modules' = getModulesFromFile(content)
    /\ pc' = "extracted"
    /\ UNCHANGED <<content, first, second, result>>
    /\ UNCHANGED runVars

NextExtract == GetModulesFromFile

SpecExtract == InitExtract /\ [][NextExtract]_vars

(* C3: every name getModulesFromFile returns matches ^[a-z0-9-_]+$, and the *)
(* validity check applied to each extracted candidate is true exactly when  *)
(* the candidate is a non-empty string over lowercase letters, digits, "-"  *)
(* and "_".                                                                 *)
C3_ReturnedNamesValid ==
    pc = "extracted" =>
        /\ \A i \in 1..Len(modules) : RegexTest(modules[i])
        /\ LET matches == MatchAll(content, 1)
           IN \A i \in 1..Len(matches) :
                  isValidModule(JSString(StripCall(matches[i])))
                      <=> RegexTest(StripCall(matches[i]))

\* The argument text of a matched call: between "require(" and the closing ")"
ArgumentOf(match) == SubSeq(match, 9, Len(match) - 1)

Quotes == {"'", "\""}

\* A simple quoted literal: a quote, text without quotes, the same quote
IsQuotedLiteral(arg) ==
    /\ Len(arg) >= 2
    /\ arg[1] \in Quotes
    /\ arg[Len(arg)] = arg[1]
    /\ \A i \in 2..(Len(arg) - 1) : arg[i] \notin Quotes

RECURSIVE CollectLiterals(_)
CollectLiterals(matches) ==
    IF matches = <<>> THEN <<>>
    ELSE (IF IsQuotedLiteral(ArgumentOf(Head(matches)))
          THEN Contribution(Head(matches)) ELSE <<>>)
         \o CollectLiterals(Tail(matches))

(* C4: a require call whose argument is not a simple quoted literal adds no *)
(* name to the result of getModulesFromFile: the result is what the calls   *)
(* with a quoted literal argument contribute, and nothing else.             *)
C4_NonLiteralSkipped ==
    pc = "extracted" => modules = CollectLiterals(MatchAll(content, 1))

-----------------------------------------------------------------------------
(* filterRegistryModules, deduplicate, diff *)

S_fs == <<"f", "s">>
S_os == <<"o", "s">>

\* is-builtin-module: the names of the runtime's own modules
BuiltInModules == {S_fs, S_os}
isBuiltInModule(name) == name \in BuiltInModules

\* Array.prototype.filter is SelectSeq

removeBuiltInModules(ms) ==
    LET Keep(m) == ~isBuiltInModule(m.name) IN SelectSeq(ms, Keep)

removeLocalFiles(ms) ==
    LET Keep(m) == IndexOf(m.name, <<".", "/">>) # 0 IN SelectSeq(ms, Keep)

filterRegistryModules(ms) == removeLocalFiles(removeBuiltInModules(ms))

\* Array.prototype.map(module => module.name)
getNamesFromModules(ms) == [i \in 1..Len(ms) |-> ms[i].name]

\* Array.prototype.indexOf(x): 0-based index of the first element equal to x, or -1
ArrayIndexOf(s, x) ==
    LET hits == {i \in 1..Len(s) : s[i] = x}
    IN IF hits = {} THEN -1 ELSE (CHOOSE i \in hits : \A j \in hits : i <= j) - 1

\* diff as it would be with partition-aware matching: an entry of b hides an
\* entry of a only when the dev flags agree too
diff_PartitionAware(a, b) ==
    LET Keep(m) == ArrayIndexOf(b, m) < 0
    IN SelectSeq(a, Keep)

diff(a, b) ==
    LET namesFromSecond == getNamesFromModules(b)
        Keep(m) == ArrayIndexOf(namesFromSecond, m.name) < 0
    IN SelectSeq(a, Keep)

\* The loop of deduplicateSimilarModules, from the state (dedupedModules,
\* dedupedModuleNames) over the modules still to visit
RECURSIVE DedupLoop(_, _, _)
DedupLoop(rest, dedupedModules, dedupedModuleNames) ==
    IF rest = <<>> THEN dedupedModules
    ELSE IF ArrayIndexOf(dedupedModuleNames, Head(rest).name) = -1
         THEN DedupLoop(Tail(rest), Append(dedupedModules, Head(rest)),
                        Append(dedupedModuleNames, Head(rest).name))
         ELSE DedupLoop(Tail(rest), dedupedModules, dedupedModuleNames)

deduplicateSimilarModules(ms) == DedupLoop(ms, <<>>, <<>>)

\* deduplicate without the split into test and production modules
deduplicate_Unpartitioned(ms) == deduplicateSimilarModules(ms)

deduplicate(ms) ==
    LET IsDev(m) == m.dev
        IsProd(m) == ~m.dev
        testModules == SelectSeq(ms, IsDev)
        prodModules == SelectSeq(ms, IsProd)
    IN (<<>> \o deduplicateSimilarModules(testModules))
           \o deduplicateSimilarModules(prodModules)

-----------------------------------------------------------------------------
(* SpecFilter, SpecDedup, SpecDiff: one list function applied to every list *)
(* within the bounds                                                        *)

S_a == <<"a">>
S_b == <<"b">>
S_c == <<"c">>
S_local == <<".", "/", "u">>
S_parent == <<".", ".", "/", "x">>

RECURSIVE Lists(_, _)
Lists(S, n) ==
    IF n = 0 THEN {<<>>}
    ELSE LET shorter == Lists(S, n - 1)
         IN shorter \cup {Append(l, x) : l \in shorter, x \in S}

ModuleRefs(names) == [name : names, dev : BOOLEAN]

InitFilter ==
    /\ first \in Lists(ModuleRefs({S_a, S_fs, S_local, S_parent}), MaxFilterLen)
    /\ second = <<>> /\ result = <<>>
    /\ content = <<>> /\ modules = <<>>
    /\ pc = "start"
    /\ NoRun

FilterRegistryModules ==
    /\ pc = "start"
    /\ result' = filterRegistryModules(first)
    /\ pc' = "filtered"
    /\ UNCHANGED <<content, modules, first, second>>
    /\ UNCHANGED runVars

NextFilter == FilterRegistryModules

SpecFilter == InitFilter /\ [][NextFilter]_vars

InitDedup ==
    /\ first \in Lists(ModuleRefs({S_a, S_b}), MaxDedupLen)
    /\ second = <<>> /\ result = <<>>
    /\ content = <<>> /\ modules = <<>>
    /\ pc = "start"
    /\ NoRun

Deduplicate ==
    /\ pc = "start"
    /\ result' = deduplicate(first)
    /\ pc' = "deduplicated"
    /\ UNCHANGED <<content, modules, first, second>>
    /\ UNCHANGED runVars

NextDedup == Deduplicate

SpecDedup == InitDedup /\ [][NextDedup]_vars

InitDiff ==
    /\ first \in Lists(ModuleRefs({S_a, S_b, S_c}), MaxFirst)
    /\ second \in Lists(ModuleRefs({S_a, S_b, S_c}), MaxSecond)
    /\ result = <<>>
    /\ content = <<>> /\ modules = <<>>
    /\ pc = "start"
    /\ NoRun

Diff ==
    /\ pc = "start"
    /\ result' = diff(first, second)
    /\ pc' = "diffed"
    /\ UNCHANGED <<content, modules, first, second>>
    /\ UNCHANGED runVars

NextDiff == Diff

SpecDiff == InitDiff /\ [][NextDiff]_vars

\* A name that begins with a relative-path prefix
StartsWith(s, prefix) == Len(prefix) <= Len(s) /\ SubSeq(s, 1, Len(prefix)) = prefix

IsRelativePath(name) ==
    \/ StartsWith(name, <<".", "/">>)
    \/ StartsWith(name, <<".", ".", "/">>)

\* The 1-based index in s of the k-th element (in order) of the index set I
KthOf(I, k) == CHOOSE i \in I : Cardinality({j \in I : j <= i}) = k

\* r is s restricted to the index set I, entries and order unchanged
IsRestriction(r, s, I) ==
    /\ Len(r) = Cardinality(I)
    /\ \A k \in 1..Len(r) : r[k] = s[KthOf(I, k)]

(* C5: the output of filterRegistryModules holds no built-in module and no  *)
(* module whose name begins with "./" or "../", and keeps every other input *)
(* module unchanged and in the same order.                                  *)
C5_FilterRemovesBuiltInAndRelative ==
    pc = "filtered" =>
        /\ \A i \in 1..Len(result) :
               /\ result[i].name \notin BuiltInModules
               /\ ~IsRelativePath(result[i].name)
        /\ IsRestriction(result, first,
               {i \in 1..Len(first) : /\ first[i].name \notin BuiltInModules
                                      /\ ~IsRelativePath(first[i].name)})

\* The 1-based index of the first occurrence of x in s
FirstOccurrence(s, x) == CHOOSE i \in 1..Len(s) : s[i] = x /\ \A j \in 1..(i - 1) : s[j] # x

(* C8: deduplicate returns a list with no two entries of the same           *)
(* (name, dev) pair, holding exactly the pairs of the input, every dev=true *)
(* entry before every dev=false entry and, within each partition, in order  *)
(* of first occurrence in the input.                                        *)
C8_DeduplicateContract ==
    pc = "deduplicated" =>
        /\ \A i, j \in 1..Len(result) : i # j => result[i] # result[j]
        /\ {result[i] : i \in 1..Len(result)} = {first[i] : i \in 1..Len(first)}
        /\ \A i, j \in 1..Len(result) : (i < j /\ result[j].dev) => result[i].dev
        /\ \A i, j \in 1..Len(result) :
               (i < j /\ result[i].dev = result[j].dev)
                   => FirstOccurrence(first, result[i]) < FirstOccurrence(first, result[j])

C8_Witness ==
    /\ pc = "deduplicated"
    /\ first = <<[name |-> S_a, dev |-> FALSE], [name |-> S_a, dev |-> FALSE],
                 [name |-> S_a, dev |-> TRUE]>>
    /\ result = <<[name |-> S_a, dev |-> TRUE], [name |-> S_a, dev |-> FALSE]>>

(* C9: diff(first, second) is exactly the entries of first whose name is    *)
(* the name of no entry of second, whatever the dev flags, each entry as it *)
(* was in first (its dev flag kept) and in the order of first.              *)
C9_DiffByNameOnly ==
    pc = "diffed" =>
        IsRestriction(result, first,
            {i \in 1..Len(first) : \A j \in 1..Len(second) : second[j].name # first[i].name})

\* a name of first is dropped because second holds it under the other dev flag,
\* and another entry is kept with its dev flag
C9_Witness ==
    /\ pc = "diffed"
    /\ first = <<[name |-> S_a, dev |-> TRUE], [name |-> S_b, dev |-> FALSE],
                 [name |-> S_c, dev |-> TRUE]>>
    /\ second = <<[name |-> S_b, dev |-> TRUE], [name |-> S_c, dev |-> FALSE]>>
    /\ result = <<[name |-> S_a, dev |-> TRUE]>>

-----------------------------------------------------------------------------
(* getInstalledModules, getUsedModules *)

\* for (let key in section) installedModules.push({name: key, dev: flag})
SectionModules(keys, flag) == [i \in 1..Len(keys) |-> [name |-> keys[i], dev |-> flag]]

\* getInstalledModules without the loop over devDependencies
getInstalledModules_NoDev(m) ==
    IF ~m.ok THEN [thrown |-> TRUE, value |-> <<>>]
    ELSE [thrown |-> FALSE, value |-> SectionModules(m.dependencies, FALSE)]

\* The parsed manifest; JSON.parse throws on a manifest that is not JSON
getInstalledModules(m) ==
    IF ~m.ok THEN [thrown |-> TRUE, value |-> <<>>]
    ELSE [thrown |-> FALSE,
          value |-> SectionModules(m.dependencies, FALSE)
                        \o SectionModules(m.devDependencies, TRUE)]

S_spec_js == <<".", "s", "p", "e", "c", ".", "j", "s">>
S_test_js == <<".", "t", "e", "s", "t", ".", "j", "s">>

isTestFile(name) == EndsWith(name, S_spec_js) \/ EndsWith(name, S_test_js)

\* The body of the loop over files: the modules of one file, tagged
ModulesOfFile(file) ==
    LET modulesFromFile == getModulesFromFile(file.text)
        dev == isTestFile(file.path)
    IN [i \in 1..Len(modulesFromFile) |-> [name |-> modulesFromFile[i], dev |-> dev]]

RECURSIVE AllModules(_)
AllModules(fs) ==
    IF fs = <<>> THEN <<>> ELSE ModulesOfFile(Head(fs)) \o AllModules(Tail(fs))

getUsedModules(fs) == deduplicate(AllModules(fs))

-----------------------------------------------------------------------------
(* runCommand, stopSpinner, isModulePopular, installModule, uninstallModule *)

POPULARITY_THRESHOLD == 10000

\* runCommand returns !response.status: true exactly for exit status 0
runCommand(status) == status = 0

\* stopSpinner(spinner, message, type): what console.log prints, if anything
stopSpinner(message, type) ==
    LET symbol == IF type = "red" THEN "error"
                  ELSE IF type = "yellow" THEN "warning" ELSE "success"
    IN IF message = <<>> THEN <<>>
       ELSE << [symbol |-> symbol, message |-> message] >>

\* The function passed as third argument of request(): the comparison it
\* would compute from the response body
popularityCallback(response) ==
    IF response.body = "malformed" THEN [thrown |-> TRUE, value |-> Undefined]
    ELSE IF response.body = "error" THEN [thrown |-> FALSE, value |-> JSBool(FALSE)]
    ELSE [thrown |-> FALSE, value |-> JSBool(response.downloads > POPULARITY_THRESHOLD)]

S_url == <<"https://apa.npmjs.org/downloads/point/last-month/">>

\* request('GET', url, callback) of sync-request: the third parameter is its
\* options, so the function is never called; the call returns the response,
\* whatever its status and body, and throws when the request cannot be made
request(url, response) == [thrown |-> ~response.reachable]

\* isModulePopular = ({name, dev}) => { ...; request(...); }: no return statement
isModulePopular(arg, response) ==
    LET name == DestructureName(arg)
        url == S_url \o JSToString(name)
    IN [requests |-> <<[url |-> url, response |-> response]>>,
        thrown |-> request(url, response).thrown,
        value |-> Undefined]

\* The part of installModule after the gate: lines 57-65
InstallCommand(m, status) ==
    LET command == (<<"npm install ">> \o m.name \o <<" --save">>)
                       \o (IF m.dev THEN <<"-dev">> ELSE <<>>)
        message == (m.name \o <<" installed">>)
                       \o (IF m.dev THEN <<" in devDependencies">> ELSE <<>>)
        success == runCommand(status)
    IN [commands |-> <<[command |-> command, status |-> status]>>,
        reports |-> IF success THEN stopSpinner(message, "green")
                    ELSE stopSpinner(m.name \o <<" installation failed">>, "yellow")]

\* installModule with the gate written `isModulePopular(name) === false`
installModule_StrictFalse(m, secure, response, status) ==
    LET gate == isModulePopular(JSString(m.name), response)
        run == InstallCommand(m, status)
    IN IF secure /\ gate.thrown
       THEN [op |-> "install", module |-> m, requests |-> gate.requests,
             commands |-> <<>>, reports |-> <<>>, thrown |-> TRUE]
       ELSE IF secure /\ gate.value = JSBool(FALSE)
       THEN [op |-> "install", module |-> m, requests |-> gate.requests,
             commands |-> <<>>,
             reports |-> stopSpinner(m.name \o <<" not trusted">>, "yellow"),
             thrown |-> FALSE]
       ELSE [op |-> "install", module |-> m,
             requests |-> IF secure THEN gate.requests ELSE <<>>,
             commands |-> run.commands, reports |-> run.reports, thrown |-> FALSE]

\* installModule({name, dev}) under the flag `secure`, when the oracle would
\* answer `response` and the command would exit with `status`
installModule(m, secure, response, status) ==
    LET gate == isModulePopular(JSString(m.name), response)
        run == InstallCommand(m, status)
    IN IF secure /\ gate.thrown
       THEN [op |-> "install", module |-> m, requests |-> gate.requests,
             commands |-> <<>>, reports |-> <<>>, thrown |-> TRUE]
       ELSE IF secure /\ ~Truthy(gate.value)
       THEN [op |-> "install", module |-> m, requests |-> gate.requests,
             commands |-> <<>>,
             reports |-> stopSpinner(m.name \o <<" not trusted">>, "yellow"),
             thrown |-> FALSE]
       ELSE [op |-> "install", module |-> m,
             requests |-> IF secure THEN gate.requests ELSE <<>>,
             commands |-> run.commands, reports |-> run.reports, thrown |-> FALSE]

uninstallModule(m, status) ==
    LET command == (<<"npm uninstall ">> \o m.name \o <<" --save">>)
                       \o (IF m.dev THEN <<"-dev">> ELSE <<>>)
        message == (m.name \o <<" removed">>)
                       \o (IF m.dev THEN <<" from devDependencies">> ELSE <<>>)
    IN [op |-> "uninstall", module |-> m, requests |-> <<>>,
        commands |-> <<[command |-> command, status |-> status]>>,
        reports |-> stopSpinner(message, "red"), thrown |-> FALSE]

-----------------------------------------------------------------------------
(* Spec: one run of the tool.  The sequencing is the orchestrator's: build  *)
(* the used set, read the manifest, diff both ways, then install what is    *)
(* missing and uninstall what is unused, one module at a time.              *)

Call(quote, name) == ((S_require \o <<"(", quote>>) \o name) \o <<quote, ")">>

SourceTexts ==
    { Call("'", S_a),
      (Call("'", S_a) \o <<"\n">>) \o Call("\"", S_b),
      (Call("'", S_fs) \o <<";">>) \o Call("'", S_local),
      S_require \o <<"(", "a", "b", "c", ")">>,
      Call("'", S_b) }

FilePaths == << <<"i", ".", "j", "s">>,
                <<"i">> \o S_spec_js,
                <<"i">> \o S_test_js >>

\* What glob returns, with the text of each file: distinct paths, in order
FileLists ==
    UNION { { [k \in 1..Cardinality(I) |->
                  [path |-> FilePaths[KthOf(I, k)], text |-> t[k]]] :
              t \in [1..Cardinality(I) -> SourceTexts] } :
            I \in {J \in SUBSET (1..Len(FilePaths)) : Cardinality(J) <= MaxFiles} }

\* The keys of one section of package.json: distinct names
KeyLists ==
    {l \in Lists({S_a, S_b}, MaxDeps) : \A i, j \in 1..Len(l) : i # j => l[i] # l[j]}

Manifests ==
    {[ok |-> FALSE, dependencies |-> <<>>, devDependencies |-> <<>>]}
        \cup [ok : {TRUE}, dependencies : KeyLists, devDependencies : KeyLists]

Unreachable == [reachable |-> FALSE, body |-> "none", downloads |-> 0]

\* What the statistics endpoint may answer to one request
OracleResponses ==
    {Unreachable}
        \cup [reachable : {TRUE}, body : {"malformed", "error"}, downloads : {0}]
        \cup [reachable : {TRUE}, body : {"json"},
              downloads : {POPULARITY_THRESHOLD - 1, POPULARITY_THRESHOLD,
                           POPULARITY_THRESHOLD + 1}]

ExitStatuses == {0, 1}

Init ==
    /\ secureMode \in BOOLEAN
    /\ manifest \in Manifests
    /\ files \in FileLists
    /\ installedModules = <<>> /\ usedModules = <<>>
    /\ toInstall = <<>> /\ toRemove = <<>> /\ calls = <<>>
    /\ pc = "scan"
    /\ content = <<>> /\ modules = <<>>
    /\ first = <<>> /\ second = <<>> /\ result = <<>>

listVars == <<content, modules, first, second, result>>

ScanSources ==
    /\ pc = "scan"
    /\ usedModules' = getUsedModules(files)
    /\ pc' = "classify"
    /\ UNCHANGED <<secureMode, manifest, files, installedModules, toInstall,
                   toRemove, calls>>
    /\ UNCHANGED listVars

Classify ==
    /\ pc = "classify"
    /\ usedModules' = filterRegistryModules(usedModules)
    /\ pc' = "manifest"
    /\ UNCHANGED <<secureMode, manifest, files, installedModules, toInstall,
                   toRemove, calls>>
    /\ UNCHANGED listVars

ReadManifest ==
    /\ pc = "manifest"
    /\ LET r == getInstalledModules(manifest)
       IN /\ installedModules' = r.value
          /\ pc' = IF r.thrown THEN "aborted" ELSE "diff"
    /\ UNCHANGED <<secureMode, manifest, files, usedModules, toInstall,
                   toRemove, calls>>
    /\ UNCHANGED listVars

ComputeDiff ==
    /\ pc = "diff"
    /\ toInstall' = diff(usedModules, installedModules)
    /\ toRemove' = diff(installedModules, usedModules)
    /\ pc' = "install"
    /\ UNCHANGED <<secureMode, manifest, files, installedModules, usedModules,
                   calls>>
    /\ UNCHANGED listVars

\* One installModule call, for every response and exit status it can meet.
\* The oracle is asked only in secure mode, and the exit status is that of a
\* command that ran: a call that runs none is taken once, not once per status.
InstallNext ==
    /\ pc = "install"
    /\ toInstall # <<>>
    /\ \E response \in (IF secureMode THEN OracleResponses ELSE {Unreachable}),
          status \in ExitStatuses :
          LET call == installModule(Head(toInstall), secureMode, response, status)
          IN /\ call.commands # <<>> \/ status = 0
             /\ calls' = Append(calls, call)
             /\ toInstall' = Tail(toInstall)
             /\ pc' = IF call.thrown THEN "aborted" ELSE "install"
    /\ UNCHANGED <<secureMode, manifest, files, installedModules, usedModules,
                   toRemove>>
    /\ UNCHANGED listVars

InstallDone ==
    /\ pc = "install"
    /\ toInstall = <<>>
    /\ pc' = "uninstall"
    /\ UNCHANGED runVars
    /\ UNCHANGED listVars

UninstallNext ==
    /\ pc = "uninstall"
    /\ toRemove # <<>>
    /\ \E status \in ExitStatuses :
          calls' = Append(calls, uninstallModule(Head(toRemove), status))
    /\ toRemove' = Tail(toRemove)
    /\ UNCHANGED <<secureMode, manifest, files, installedModules, usedModules,
                   toInstall, pc>>
    /\ UNCHANGED listVars

UninstallDone ==
    /\ pc = "uninstall"
    /\ toRemove = <<>>
    /\ pc' = "done"
    /\ UNCHANGED runVars
    /\ UNCHANGED listVars

Next ==
    \/ ScanSources
    \/ Classify
    \/ ReadManifest
    \/ ComputeDiff
    \/ InstallNext
    \/ InstallDone
    \/ UninstallNext
    \/ UninstallDone

Spec == Init /\ [][Next]_vars

-----------------------------------------------------------------------------
(* Properties of a run *)

\* The installModule calls of the run that asked the oracle
GatedCalls ==
    {i \in 1..Len(calls) : calls[i].op = "install" /\ calls[i].requests # <<>>}

ResponseOf(call) == call.requests[1].response

NotTrustedReport(call) ==
    << [symbol |-> "warning", message |-> call.module.name \o <<" not trusted">>] >>

(* C1: in secure mode the gate answers true exactly when the oracle reports *)
(* more than 10000 downloads for the module's name, and installModule uses  *)
(* that answer: the install command is issued for a module above the        *)
(* threshold and not for one at or below it.                                *)
C1_GateFollowsOracle ==
    \A i \in GatedCalls :
        LET call == calls[i]
            response == ResponseOf(call)
        IN (secureMode /\ response.reachable /\ response.body = "json") =>
               (call.commands # <<>>) <=> Truthy(popularityCallback(response).value)

(* C2: in secure mode a module whose oracle-reported downloads are below    *)
(* the threshold is reported "not trusted" and no install command is issued *)
(* for it; with secure mode off the oracle is not asked at all.             *)
C2_BelowThresholdSkipped ==
    \A i \in 1..Len(calls) :
        LET call == calls[i]
        IN calls[i].op = "install" =>
               /\ (/\ secureMode
                   /\ call.requests # <<>>
                   /\ ResponseOf(call).reachable
                   /\ ResponseOf(call).body = "json"
                   /\ ResponseOf(call).downloads < POPULARITY_THRESHOLD)
                      => /\ call.reports = NotTrustedReport(call)
                         /\ call.commands = <<>>
                         /\ ~call.thrown
               /\ ~secureMode => call.requests = <<>>

C2_Witness ==
    \E i \in GatedCalls :
        /\ secureMode
        /\ ResponseOf(calls[i]).body = "json"
        /\ ResponseOf(calls[i]).downloads = POPULARITY_THRESHOLD - 1
        /\ calls[i].reports = NotTrustedReport(calls[i])
        /\ calls[i].commands = <<>>

\* The message that tells the user the command of the call did its work
SuccessMessage(call) ==
    IF call.op = "install"
    THEN (call.module.name \o <<" installed">>)
             \o (IF call.module.dev THEN <<" in devDependencies">> ELSE <<>>)
    ELSE (call.module.name \o <<" removed">>)
             \o (IF call.module.dev THEN <<" from devDependencies">> ELSE <<>>)

(* C6: for every installModule and uninstallModule call that ran the        *)
(* package-manager command, the report matches the command's outcome:       *)
(* success is reported only for exit status 0 and a failure otherwise, and  *)
(* the call returns normally.                                               *)
C6_ReportMatchesOutcome ==
    \A i \in 1..Len(calls) :
        LET call == calls[i]
        IN call.commands # <<>> =>
               /\ ~call.thrown
               /\ Len(call.reports) = 1
               /\ call.commands[1].status = 0 =>
                      /\ call.reports[1].symbol = "success"
                      /\ call.reports[1].message = SuccessMessage(call)
               /\ call.commands[1].status # 0 =>
                      /\ call.reports[1].symbol # "success"
                      /\ call.reports[1].message # SuccessMessage(call)

(* C7: in secure mode, when the oracle is unreachable or answers with an    *)
(* error or a malformed body, the module is reported "not trusted", no      *)
(* install command is issued for it, and the call returns normally so that  *)
(* the run goes on with the remaining modules.                              *)
C7_OracleFailureFailsClosed ==
    \A i \in GatedCalls :
        LET call == calls[i]
            response == ResponseOf(call)
        IN (secureMode /\ (~response.reachable \/ response.body \in {"malformed", "error"}))
               => /\ call.reports = NotTrustedReport(call)
                  /\ call.commands = <<>>
                  /\ ~call.thrown
                  /\ pc # "aborted"

NameSet(ms) == {ms[i].name : i \in 1..Len(ms)}
KeySet(keys) == {keys[i] : i \in 1..Len(keys)}

\* The names package.json declares, over both sections
DeclaredNames == KeySet(manifest.dependencies) \cup KeySet(manifest.devDependencies)

(* C10: when the manifest declares, over dependencies and devDependencies,  *)
(* exactly the names of the scanned and filtered used set, both diffs are   *)
(* empty and the run issues no install and no uninstall.                    *)
C10_Idempotent ==
    (/\ pc \in {"install", "uninstall", "done"}
     /\ DeclaredNames = NameSet(usedModules))
        => /\ toInstall = <<>>
           /\ toRemove = <<>>
           /\ calls = <<>>

\* a name used in production code and declared only as a devDependency,
\* another declared in both sections, and the run is over
C10_Witness ==
    /\ pc = "done"
    /\ manifest.ok
    /\ manifest.dependencies = <<S_b>>
    /\ manifest.devDependencies = <<S_a, S_b>>
    /\ NameSet(usedModules) = {S_a, S_b}
    /\ \E i \in 1..Len(usedModules) : usedModules[i].name = S_a /\ ~usedModules[i].dev
    /\ calls = <<>>

=============================================================================
